---- MODULE Spec2Model ----
(***************************************************************************)
(* Build-and-release pipeline of the extension template: build.cjs         *)
(* (manifest validation, version synchronization, bundling, packaging)     *)
(* and publish.cjs (preconditions, OAuth token handling, upload).          *)
(*                                                                         *)
(* JavaScript strings are modelled as sequences of one-character strings,  *)
(* so that split, replace, toLowerCase and the file-name convention are    *)
(* computed rather than assumed.                                           *)
(***************************************************************************)
EXTENDS Integers, Sequences, FiniteSets, TLC

(***************************************************************************)
(* Strings                                                                 *)
(***************************************************************************)
Digits == {"0", "1", "2", "3", "4", "5", "6", "7", "8", "9"}

DigitVal == [c \in Digits |->
    CASE c = "0" -> 0 [] c = "1" -> 1 [] c = "2" -> 2 [] c = "3" -> 3
      [] c = "4" -> 4 [] c = "5" -> 5 [] c = "6" -> 6 [] c = "7" -> 7
      [] c = "8" -> 8 [] c = "9" -> 9]

\* The value Number() gives for a string that is not a number.
NaN == -1

\* /^\d+$/.test(part)
IsDigits(part) == Len(part) >= 1 /\ \A i \in 1..Len(part) : part[i] \in Digits

\* parseInt(part, 10) of a string of decimal digits
RECURSIVE ParseInt(_)
ParseInt(part) ==
    IF Len(part) = 0 THEN 0
    ELSE 10 * ParseInt(SubSeq(part, 1, Len(part) - 1)) + DigitVal[part[Len(part)]]

\* Number(part): the empty string is 0, a digit string its value, else NaN
ToNumber(part) ==
    IF Len(part) = 0 THEN 0
    ELSE IF IsDigits(part) THEN ParseInt(part)
    ELSE NaN

\* x || 0 on a number: NaN and 0 are falsy
OrZero(x) == IF x = NaN THEN 0 ELSE x

\* s.split(".")
RECURSIVE SplitDot(_)
SplitDot(s) ==
    IF \A i \in 1..Len(s) : s[i] # "." THEN <<s>>
    ELSE LET k == CHOOSE i \in 1..Len(s) :
                      s[i] = "." /\ \A j \in 1..(i - 1) : s[j] # "."
         IN <<SubSeq(s, 1, k - 1)>> \o SplitDot(SubSeq(s, k + 1, Len(s)))

\* s.startsWith(p)
StartsWith(s, p) == Len(s) >= Len(p) /\ SubSeq(s, 1, Len(p)) = p

\* s.endsWith(p)
EndsWith(s, p) == Len(s) >= Len(p) /\ SubSeq(s, Len(s) - Len(p) + 1, Len(s)) = p

\* s.includes(p)
Includes(s, p) ==
    \E i \in 0..(Len(s) - Len(p)) : SubSeq(s, i + 1, i + Len(p)) = p

LowerChar(c) ==
    CASE c = "M" -> "m" [] c = "E" -> "e" [] c = "P" -> "p" [] c = "N" -> "n"
      [] c = "G" -> "g" [] OTHER -> c

\* s.toLowerCase()
ToLowerCase(s) == [i \in 1..Len(s) |-> LowerChar(s[i])]

IsSpace(c) == c \in {" ", "\t"}

\* s.replace(/\s+/g, "-"): every maximal run of whitespace becomes one "-"
RECURSIVE ReplaceSpaces(_)
ReplaceSpaces(s) ==
    IF Len(s) = 0 THEN <<>>
    ELSE IF IsSpace(s[1])
         THEN IF Len(s) >= 2 /\ IsSpace(s[2])
              THEN ReplaceSpaces(Tail(s))
              ELSE <<"-">> \o ReplaceSpaces(Tail(s))
         ELSE <<s[1]>> \o ReplaceSpaces(Tail(s))

\* s.replace(/\./g, "-")
ReplaceDots(s) == [i \in 1..Len(s) |-> IF s[i] = "." THEN "-" ELSE s[i]]

(***************************************************************************)
(* compareVersions                                                         *)
(***************************************************************************)
NumberParts(v) == LET p == SplitDot(v) IN [i \in 1..Len(p) |-> ToNumber(p[i])]

Max(a, b) == IF a >= b THEN a ELSE b

\* the loop of compareVersions from index i (1-based) on
RECURSIVE CompareFrom(_, _, _)
CompareFrom(parts1, parts2, i) ==
    IF i > Max(Len(parts1), Len(parts2)) THEN 0
    ELSE LET a == IF i <= Len(parts1) THEN OrZero(parts1[i]) ELSE 0
             b == IF i <= Len(parts2) THEN OrZero(parts2[i]) ELSE 0
         IN IF a > b THEN 1
            ELSE IF a < b THEN -1
            ELSE CompareFrom(parts1, parts2, i + 1)

\* a comparison in which the version with more components is the higher
compareVersionsByCount(v1, v2) ==
    IF Len(NumberParts(v1)) > Len(NumberParts(v2)) THEN 1
    ELSE IF Len(NumberParts(v1)) < Len(NumberParts(v2)) THEN -1
    ELSE CompareFrom(NumberParts(v1), NumberParts(v2), 1)

compareVersions(v1, v2) == CompareFrom(NumberParts(v1), NumberParts(v2), 1)

(***************************************************************************)
(* JSON values.  A value is a record [t, s, n]: t is the JavaScript type   *)
(* ("absent" when the key is not in the object), s the characters of a     *)
(* string, n the value of a number.  The version key, when present, is a   *)
(* JSON string.                                                            *)
(***************************************************************************)
Absent == [t |-> "absent", s |-> <<>>, n |-> 0]
Str(chars) == [t |-> "str", s |-> chars, n |-> 0]
Num(k) == [t |-> "num", s |-> <<>>, n |-> k]
Bool(b) == [t |-> "bool", s |-> <<>>, n |-> IF b THEN 1 ELSE 0]

\* key in object
Has(val) == val.t # "absent"

\* JavaScript truthiness of a value read from an object
Truthy(val) ==
    CASE val.t = "absent" -> FALSE
      [] val.t = "str" -> Len(val.s) > 0
      [] val.t = "num" -> val.n # 0
      [] val.t = "bool" -> val.n = 1
      [] OTHER -> TRUE

\* The icons value: t is "absent", "object", "array", "str", "num", "bool"
\* or "null"; entries are the [size, path] pairs of an object.
NoIcons == [t |-> "absent", entries |-> <<>>]
IconsOf(type) == [t |-> type, entries |-> <<>>]
IconsObject(entries) == [t |-> "object", entries |-> entries]

\* icons[size] of an icons object
IconAt(icons, size) ==
    IF \E i \in 1..Len(icons.entries) : icons.entries[i].size = size
    THEN icons.entries[CHOOSE i \in 1..Len(icons.entries) :
                           icons.entries[i].size = size].path
    ELSE Absent

MaxNameLength == 75
MaxDescriptionLength == 132
MaxVersionParts == 4
MaxVersionInt == 65535

supportedFormats ==
    << <<".", "p", "n", "g">>, <<".", "b", "m", "p">>, <<".", "g", "i", "f">>,
       <<".", "i", "c", "o">>, <<".", "j", "p", "g">>,
       <<".", "j", "p", "e", "g">> >>

(***************************************************************************)
(* validateManifest                                                        *)
(***************************************************************************)
\* the for-loop over the version parts: the errors pushed and allZero at the
\* end of the loop (a break leaves allZero as it was at the break)
RECURSIVE VersionLoop(_, _, _)
VersionLoop(parts, i, allZero) ==
    IF i > Len(parts) THEN [errs |-> <<>>, allZero |-> allZero]
    ELSE IF ~IsDigits(parts[i])
         THEN [errs |-> <<"version_int">>, allZero |-> allZero]
    ELSE LET num == ParseInt(parts[i])
             az == IF num # 0 THEN FALSE ELSE allZero
         IN IF num < 0 \/ num > MaxVersionInt
            THEN [errs |-> <<"version_range">>, allZero |-> az]
            ELSE IF num # 0 /\ StartsWith(parts[i], <<"0">>)
            THEN [errs |-> <<"version_leading">>, allZero |-> az]
            ELSE VersionLoop(parts, i + 1, az)

ManifestVersionErrors(m) ==
    IF ~Has(m.manifest_version) THEN <<>>
    ELSE IF m.manifest_version.t # "num" \/ m.manifest_version.n # 3
         THEN <<"manifest_version">>
         ELSE <<>>

\* a name filled from package.json whatever the name there is
NameFillableFromAnything(m, pkg) == ~Has(m.name) /\ Has(pkg.name)

\* name can be filled from package.json
NameFillable(m, pkg) == ~Has(m.name) /\ Truthy(pkg.name) /\ pkg.name.t = "str"

NameErrors(m, pkg) ==
    IF ~Has(m.name)
    THEN IF NameFillable(m, pkg) THEN <<>> ELSE <<"name_missing">>
    ELSE IF m.name.t # "str" THEN <<"name_type">>
    ELSE IF Len(m.name.s) > MaxNameLength THEN <<"name_length">>
    ELSE <<>>

VersionErrors(m) ==
    IF ~Has(m.version) THEN <<"version_missing">>
    ELSE LET versionParts == SplitDot(m.version.s)
         IN IF Len(versionParts) < 1 \/ Len(versionParts) > MaxVersionParts
            THEN <<"version_count">>
            ELSE LET r == VersionLoop(versionParts, 1, TRUE)
                 IN r.errs \o (IF r.allZero THEN <<"version_allzero">> ELSE <<>>)

\* a description warned about from the limit on, the limit included
DescriptionWarningsFromLimit(m) ==
    IF ~Has(m.description) THEN <<"desc_missing">>
    ELSE IF m.description.t # "str" THEN <<"desc_type">>
    ELSE IF Len(m.description.s) >= MaxDescriptionLength THEN <<"desc_length">>
    ELSE <<>>

DescriptionWarnings(m) ==
    IF ~Has(m.description) THEN <<"desc_missing">>
    ELSE IF m.description.t # "str" THEN <<"desc_type">>
    ELSE IF Len(m.description.s) > MaxDescriptionLength THEN <<"desc_length">>
    ELSE <<>>

HasSupportedFormat(iconPath) ==
    \E k \in 1..Len(supportedFormats) :
        EndsWith(ToLowerCase(iconPath), supportedFormats[k])

RECURSIVE IconEntryWarnings(_, _)
IconEntryWarnings(entries, i) ==
    IF i > Len(entries) THEN <<>>
    ELSE (IF entries[i].path.t # "str" THEN <<"icon_path_type">>
          ELSE IF ~HasSupportedFormat(entries[i].path.s) THEN <<"icon_format">>
          ELSE <<>>) \o IconEntryWarnings(entries, i + 1)

\* reading icons["128"] of null throws a TypeError
IconsThrow(m) == m.icons.t = "null"

IconsWarnings(m) ==
    IF m.icons.t = "absent" THEN <<"icons_missing">>
    ELSE IF m.icons.t \notin {"object", "null"} THEN <<"icons_type">>
    ELSE (IF ~Truthy(IconAt(m.icons, "128")) THEN <<"icons_128">> ELSE <<>>)
         \o IconEntryWarnings(m.icons.entries, 1)

\* the manifest object after the auto-fills
AutoFilled(m, pkg) ==
    [m EXCEPT !.manifest_version = IF Has(@) THEN @ ELSE Num(3),
              !.name = IF NameFillable(m, pkg) THEN pkg.name ELSE @]

\* Result of validateManifest: the errors and warnings, the manifest object
\* as mutated, whether the file is written back, and whether the call threw
\* (in which case nothing is returned and nothing written).
validateManifest(manifestJson, packageJson) ==
    LET threw == IconsThrow(manifestJson)
        needsSave == ~Has(manifestJson.manifest_version)
                     \/ NameFillable(manifestJson, packageJson)
    IN [errors |-> ManifestVersionErrors(manifestJson)
                   \o NameErrors(manifestJson, packageJson)
                   \o VersionErrors(manifestJson),
        warnings |-> DescriptionWarnings(manifestJson)
                     \o (IF threw THEN <<>> ELSE IconsWarnings(manifestJson)),
        manifest |-> AutoFilled(manifestJson, packageJson),
        saved |-> needsSave /\ ~threw,
        threw |-> threw]

(***************************************************************************)
(* Archive names, version synchronization, ignore-list                     *)
(***************************************************************************)
\* manifestJson.name.toLowerCase().replace(/\s+/g, "-")
packageNameOf(name) == ReplaceSpaces(ToLowerCase(name))

\* `v${version.replace(/\./g, "-")}`
formattedVersion(version) == <<"v">> \o ReplaceDots(version)

DotZip == <<".", "z", "i", "p">>

\* `${packageName}-${formattedVersion}.zip`
zipFileNameOf(packageName, version) ==
    packageName \o <<"-">> \o formattedVersion(version) \o DotZip

\* glob.sync(`${packageName}-v*.zip`) applied to one file name
GlobMatch(packageName, file) ==
    /\ StartsWith(file, packageName \o <<"-", "v">>)
    /\ EndsWith(file, DotZip)
    /\ Len(file) >= Len(packageName) + 2 + Len(DotZip)

\* oldZips with the filter inverted: the new archive is the one removed
oldZipsInverted(packageName, zipFileName, files) ==
    {f \in files : GlobMatch(packageName, f) /\ f = zipFileName}

\* the files removed after a new archive was created
oldZips(packageName, zipFileName, files) ==
    {f \in files : GlobMatch(packageName, f) /\ f # zipFileName}

\* a synchronization that writes both files on every call
synchronizeVersionsRewrites(pkgVersion, manVersion) ==
    LET highestVersion == IF compareVersions(pkgVersion, manVersion) >= 0
                          THEN pkgVersion ELSE manVersion
    IN [highest |-> highestVersion,
        pkgVersion |-> highestVersion,
        manVersion |-> highestVersion,
        pkgWritten |-> TRUE,
        manWritten |-> TRUE]

\* synchronizeVersions: the highest version, the two versions afterwards and
\* which of the two files is written
synchronizeVersions(pkgVersion, manVersion) ==
    LET highestVersion == IF compareVersions(pkgVersion, manVersion) >= 0
                          THEN pkgVersion ELSE manVersion
        pkgLags == compareVersions(pkgVersion, highestVersion) < 0
        manLags == compareVersions(manVersion, highestVersion) < 0
    IN [highest |-> highestVersion,
        pkgVersion |-> IF pkgLags THEN highestVersion ELSE pkgVersion,
        manVersion |-> IF manLags THEN highestVersion ELSE manVersion,
        pkgWritten |-> pkgLags,
        manWritten |-> manLags]

\* The ignore-list is a sequence of characters in which the comment line
\* "# Generated by build.cjs" is one element.
GeneratedComment == "# Generated by build.cjs"

\* `\n\n# Generated by build.cjs\n${packageName}-*.zip\n`
zipIgnorePattern(packageName) ==
    <<"\n", "\n", GeneratedComment, "\n">> \o packageName
        \o <<"-", "*">> \o DotZip \o <<"\n">>

IsBlank(c) == c \in {"\n", " ", "\t"}

\* s.trim()
RECURSIVE TrimLeft(_)
TrimLeft(s) == IF Len(s) > 0 /\ IsBlank(s[1]) THEN TrimLeft(Tail(s)) ELSE s

RECURSIVE TrimRight(_)
TrimRight(s) ==
    IF Len(s) > 0 /\ IsBlank(s[Len(s)])
    THEN TrimRight(SubSeq(s, 1, Len(s) - 1)) ELSE s

Trim(s) == TrimRight(TrimLeft(s))

\* A text file: whether it exists and its content.
NoText == [exists |-> FALSE, content |-> <<>>]
Text(content) == [exists |-> TRUE, content |-> content]

\* an ignore-list that gets the block on every call
manageGitignoreAlwaysAppends(gitignore, packageName) ==
    Text(gitignore.content \o zipIgnorePattern(packageName))

\* manageGitignore: the ignore-list file afterwards
manageGitignore(gitignore, packageName) ==
    IF gitignore.exists
    THEN IF ~Includes(gitignore.content, Trim(zipIgnorePattern(packageName)))
         THEN Text(gitignore.content \o zipIgnorePattern(packageName))
         ELSE gitignore
    ELSE Text(zipIgnorePattern(packageName))

(***************************************************************************)
(* Inputs of the pipeline                                                  *)
(***************************************************************************)
MaxRuns == 3     \* build and publish runs in one behaviour

NameMX == <<"M", " ", "x">>
NameX == <<"x">>

V1_0 == <<"1", ".", "0">>
V1_0_0 == <<"1", ".", "0", ".", "0">>
V1_0_1 == <<"1", ".", "0", ".", "1">>
V0 == <<"0">>

IconPng == <<"i", ".", "P", "N", "G">>
GoodIcons == IconsObject(<< [size |-> "128", path |-> Str(IconPng)] >>)
GoodDescription == Str(<<"d">>)

Manifest(mv, name, version, description, icons) ==
    [manifest_version |-> mv, name |-> name, version |-> version,
     description |-> description, icons |-> icons]

EmptyManifest == Manifest(Absent, Absent, Absent, Absent, NoIcons)

\* the manifests the pipeline is run on
PipelineManifests ==
    { Manifest(Num(3), Str(NameMX), Str(v), GoodDescription, GoodIcons) :
          v \in {V1_0, V1_0_0, V1_0_1} }
    \cup { Manifest(Absent, Str(NameMX), Str(V1_0_0), GoodDescription, GoodIcons),
           Manifest(Num(3), Absent, Str(V1_0_0), GoodDescription, GoodIcons),
           Manifest(Absent, Str(NameMX), Str(V0), GoodDescription, GoodIcons),
           Manifest(Num(3), Str(NameMX), Str(V0), GoodDescription, GoodIcons),
           Manifest(Num(3), Str(NameMX), Str(V1_0_0), Absent, NoIcons),
           Manifest(Num(3), Str(NameMX), Str(V1_0_0), GoodDescription,
                    IconsOf("null")) }

Package(name, version) == [name |-> name, version |-> version]

PipelinePackages ==
    { Package(Str(NameX), Str(V1_0_0)), Package(Str(NameX), Str(V1_0_1)),
      Package(Absent, Str(V1_0_0)) }

\* the versions an edit between two runs can set
EditVersions == {V1_0_0, V1_0_1}

\* A JSON file: whether it exists and the object it holds.
NoJson == [exists |-> FALSE, json |-> EmptyManifest]
Json(obj) == [exists |-> TRUE, json |-> obj]
NoPackage == [exists |-> FALSE, json |-> Package(Absent, Absent)]

\* an archive of an older version and a file of another origin, both of
\* which match `m-x-v*.zip`
StaleZips == { <<"m", "-", "x", "-", "v", "0", "-", "9">> \o DotZip,
               <<"m", "-", "x", "-", "v", "a">> \o DotZip }

OtherIgnoreList == Text(<<"d", "i", "s", "t", "\n">>)

\* The .env file: whether it exists and the refresh tokens appended to it.
NoEnvFile == [exists |-> FALSE, tokens |-> <<>>]
EnvFile(tokens) == [exists |-> TRUE, tokens |-> tokens]

\* process.env of a run
NoEnv == [CLIENT |-> FALSE, EXTENSION_ID |-> FALSE, REFRESH_TOKEN |-> 0]

\* the refresh token the environment holds before any authorization
OldToken == 1

\* getRefreshToken: no authorization in progress
NoRun == [mode |-> "idle", exitStatus |-> -1, zip |-> <<>>, edited |-> FALSE]

\* The popup component before it is mounted: timeoutIdRef (0 for
\* undefined), the identifier the next setTimeout returns, the timers
\* pending with the time each has run, the time since the most recent
\* mouse-enter with no mouse-leave after it (-1 when there is none), the
\* mouse events so far, the number of times the destroy action fired and
\* the time since mouse-enter at which it fired last.
NoPopup == [mounted |-> FALSE, timeoutIdRef |-> 0, nextId |-> 1,
            pending |-> {}, sinceEnter |-> -1, events |-> 0,
            fires |-> 0, firedSince |-> -1, firedMounted |-> FALSE]

\* no synchronizeVersions applied
NoSync == [highest |-> <<>>, pkgVersion |-> <<>>, manVersion |-> <<>>,
           pkgWritten |-> FALSE, manWritten |-> FALSE]

\* no function applied on its own: compareVersions (its arguments v1 and
\* v2, its value on (v1, v2), on (v2, v1) and on (v1, v1)) and
\* synchronizeVersions (what its first and its second application returned)
NoResult == [compared |-> FALSE, v1 |-> <<>>, v2 |-> <<>>,
             cmp |-> 0, rev |-> 0, self |-> 0,
             applied |-> 0, first |-> NoSync, second |-> NoSync]

NoAuth == [active |-> FALSE, urlPrinted |-> FALSE, rlOpen |-> FALSE,
           acknowledged |-> FALSE, urlOpened |-> FALSE, listening |-> FALSE,
           settled |-> "none", token |-> 0, requests |-> 0, inFlight |-> 0,
           exchanges |-> 0]

(***************************************************************************)
(* State                                                                   *)
(***************************************************************************)
VARIABLES
    fs,             \* the project directory: package.json, public/manifest.json,
                    \* static/manifest.json, the output directory, the archives
                    \* in the project root (partial: those not written
                    \* completely), .gitignore
    mode,           \* "idle", "build" or "publish": the script running or run last
    pc,             \* the step the running script is at, "exited" after it ended
    packageJson,    \* build: the parsed package.json object
    manifestJson,   \* the parsed manifest object of the running script
    errors,         \* build: the errors of validateManifest
    warnings,       \* build: the warnings of validateManifest
    highestVersion, \* build: the result of synchronizeVersions
    exitStatus,     \* exit status of the run, -1 while it runs
    stderr,         \* the error lines of the run
    trace,          \* the steps the run has performed, in order
    fs0,            \* the project directory when the run started
    created,        \* the archives created so far, over all runs
    runs,           \* number of runs started
    edits,          \* whether the descriptor versions were edited since the last run
    env,            \* publish: process.env (CLIENT_ID and CLIENT_SECRET set,
                    \* EXTENSION_ID set, REFRESH_TOKEN or 0)
    auth,           \* publish: the authorization in progress (getRefreshToken)
    accessToken,    \* publish: the access token obtained, 0 if none
    authCount,      \* publish: authorizations started in the run
    fetchCount,     \* publish: access-token fetches issued in the run
    uploadCount,    \* publish: upload requests issued in the run
    printed,        \* publish: refresh tokens printed for manual copy
    prev,           \* the run before the current one: its script, its exit
                    \* status, for a build that got to packaging without
                    \* warnings its archive name, and whether the versions
                    \* were edited after it
    result,         \* the values returned by a function applied on its own
                    \* (compareVersions, synchronizeVersions)
    popup           \* the popup component: its timer reference, the timers
                    \* pending, the time since the pointer entered the logo

vars == <<fs, mode, pc, packageJson, manifestJson, errors, warnings,
          highestVersion, exitStatus, stderr, trace, fs0, created, runs, edits,
          env, auth, accessToken, authCount, fetchCount, uploadCount, printed,
          prev, result, popup>>

runVars == <<packageJson, manifestJson, errors, warnings, highestVersion>>

pubVars == <<env, auth, accessToken, authCount, fetchCount, uploadCount, printed,
            prev>>

Init ==
    /\ fs \in [pkg : {NoPackage} \cup {Json(p) : p \in PipelinePackages},
               manifest : {NoJson} \cup {Json(m) : m \in PipelineManifests},
               staticManifest : {NoJson} \cup {Json(m) : m \in PipelineManifests},
               outDir : {FALSE},
               zips : {{}, StaleZips},
               partial : {{}},
               gitignore : {NoText, OtherIgnoreList},
               dotenv : {EnvFile(<<>>)}]
    /\ fs.staticManifest \in {NoJson, fs.manifest}
    /\ (fs.zips = {}) = (fs.gitignore = NoText)
    /\ mode = "idle"
    /\ pc = "exited"
    /\ packageJson = Package(Absent, Absent)
    /\ manifestJson = EmptyManifest
    /\ errors = <<>>
    /\ warnings = <<>>
    /\ highestVersion = <<>>
    /\ exitStatus = -1
    /\ stderr = <<>>
    /\ trace = <<>>
    /\ fs0 = fs
    /\ created = <<>>
    /\ runs = 0
    /\ edits = FALSE
    /\ env = NoEnv
    /\ auth = NoAuth
    /\ accessToken = 0
    /\ authCount = 0
    /\ fetchCount = 0
    /\ uploadCount = 0
    /\ printed = <<>>
    /\ prev = NoRun
    /\ result = NoResult
    /\ popup = NoPopup

(***************************************************************************)
(* build.cjs: main                                                         *)
(***************************************************************************)
\* the archive name of the build run
ZipFileName == zipFileNameOf(packageNameOf(manifestJson.name.s), highestVersion)

\* what the next run remembers of the run that ended
ThisRun ==
    [mode |-> mode, exitStatus |-> exitStatus,
     zip |-> IF mode = "build" /\ exitStatus = 0 /\ Len(warnings) = 0
             THEN ZipFileName ELSE <<>>,
     edited |-> edits]

\* the catch block logging the error without a failure status
CatchExitZero(message) ==
    /\ stderr' = Append(stderr, message)
    /\ exitStatus' = 0
    /\ pc' = "exited"

\* the catch block of main: log the error, process.exit(1)
Catch(message) ==
    /\ stderr' = Append(stderr, message)
    /\ exitStatus' = 1
    /\ pc' = "exited"

StartBuild ==
    /\ pc = "exited"
    /\ runs < MaxRuns
    /\ runs' = runs + 1
    /\ mode' = "build"
    /\ pc' = "load"
    /\ packageJson' = Package(Absent, Absent)
    /\ manifestJson' = EmptyManifest
    /\ errors' = <<>>
    /\ warnings' = <<>>
    /\ highestVersion' = <<>>
    /\ exitStatus' = -1
    /\ stderr' = <<>>
    /\ trace' = <<>>
    /\ fs0' = fs
    /\ env' = NoEnv
    /\ auth' = NoAuth
    /\ accessToken' = 0
    /\ authCount' = 0
    /\ fetchCount' = 0
    /\ uploadCount' = 0
    /\ printed' = <<>>
    /\ prev' = ThisRun
    /\ result' = NoResult
    /\ popup' = popup
    /\ edits' = FALSE
    /\ UNCHANGED <<fs, created>>

\* loadConfigs
LoadConfigs ==
    /\ mode = "build" /\ pc = "load"
    /\ IF ~fs.pkg.exists \/ ~fs.manifest.exists
       THEN /\ trace' = trace \o <<"load", "failed">>
            /\ Catch(IF ~fs.pkg.exists THEN "package.json not found"
                                         ELSE "manifest.json not found")
            /\ UNCHANGED <<packageJson, manifestJson>>
       ELSE /\ trace' = Append(trace, "load")
            /\ packageJson' = fs.pkg.json
            /\ manifestJson' = fs.manifest.json
            /\ pc' = "validate"
            /\ UNCHANGED <<exitStatus, stderr>>
    /\ UNCHANGED <<fs, mode, errors, warnings, highestVersion, fs0, popup, result, created,
                   runs, edits>>
    /\ UNCHANGED pubVars

\* the run going on whatever the errors
FatalNever(r) == FALSE

\* warnings ending the run as errors do
FatalOnWarnings(r) == Len(r.errors) > 0 \/ Len(r.warnings) > 0

\* main: errors.length > 0 ends the run
Fatal(r) == Len(r.errors) > 0

\* validateManifest and the check of its errors
Validate ==
    /\ mode = "build" /\ pc = "validate"
    /\ LET r == validateManifest(manifestJson, packageJson)
       IN IF r.threw
          THEN /\ trace' = trace \o <<"validate", "failed">>
               /\ Catch("TypeError")
               /\ UNCHANGED <<fs, manifestJson, errors, warnings>>
          ELSE /\ trace' = Append(trace, "validate")
               /\ manifestJson' = r.manifest
               /\ fs' = IF r.saved
                        THEN [fs EXCEPT !.manifest = Json(r.manifest)]
                        ELSE fs
               /\ errors' = r.errors
               /\ warnings' = r.warnings
               /\ IF Fatal(r)
                  THEN /\ stderr' = Append(stderr, "Manifest validation failed")
                       /\ exitStatus' = 1
                       /\ pc' = "exited"
                  ELSE /\ pc' = "sync"
                       /\ UNCHANGED <<exitStatus, stderr>>
    /\ UNCHANGED <<mode, packageJson, highestVersion, fs0, popup, result, created, runs, edits>>
    /\ UNCHANGED pubVars

\* synchronizeVersions
SynchronizeVersions ==
    /\ mode = "build" /\ pc = "sync"
    /\ trace' = Append(trace, "sync")
    /\ LET r == synchronizeVersions(packageJson.version.s, manifestJson.version.s)
           pkg2 == [packageJson EXCEPT !.version = Str(r.pkgVersion)]
           man2 == [manifestJson EXCEPT !.version = Str(r.manVersion)]
       IN /\ packageJson' = pkg2
          /\ manifestJson' = man2
          /\ highestVersion' = r.highest
          /\ fs' = [fs EXCEPT
                      !.pkg = IF r.pkgWritten THEN Json(pkg2) ELSE @,
                      !.manifest = IF r.manWritten THEN Json(man2) ELSE @]
    /\ pc' = "mkdir"
    /\ UNCHANGED <<mode, errors, warnings, exitStatus, stderr, fs0, popup, result, created,
                   runs, edits>>
    /\ UNCHANGED pubVars

\* ensure the output directory exists
EnsureOutputDir ==
    /\ mode = "build" /\ pc = "mkdir"
    /\ trace' = Append(trace, "mkdir")
    /\ fs' = [fs EXCEPT !.outDir = TRUE]
    /\ pc' = "bundle"
    /\ UNCHANGED <<mode, runVars, exitStatus, stderr, fs0, popup, result, created, runs, edits>>
    /\ UNCHANGED pubVars

\* runViteBuild: the external command succeeds or fails
RunViteBuild ==
    /\ mode = "build" /\ pc = "bundle"
    /\ \E ok \in BOOLEAN :
          IF ok THEN /\ trace' = Append(trace, "bundle")
                     /\ pc' = "package"
                     /\ UNCHANGED <<exitStatus, stderr>>
                ELSE /\ trace' = trace \o <<"bundle", "failed">>
                     /\ Catch("Vite build failed")
    /\ UNCHANGED <<fs, mode, runVars, fs0, popup, result, created, runs, edits>>
    /\ UNCHANGED pubVars

\* packaging whatever the warnings
WarningsIgnored == TRUE

\* packaging without looking for the archive
ArchiveNeverExists(zipFileName) == FALSE

\* main: warnings.length === 0
NoWarnings == Len(warnings) = 0

\* main: fs.existsSync(zipFilePath)
ArchiveExists(zipFileName) == zipFileName \in fs.zips

\* packaging is skipped: warnings, or the archive exists
SkipPackaging ==
    /\ mode = "build" /\ pc = "package"
    /\ ~NoWarnings \/ ArchiveExists(ZipFileName)
    /\ exitStatus' = 0
    /\ pc' = "exited"
    /\ UNCHANGED <<fs, mode, runVars, stderr, trace, fs0, popup, result, created, runs, edits>>
    /\ UNCHANGED pubVars

\* createZipArchive, then the removal of the old archives and manageGitignore.
\* The archive stream ends in the close of the output file, or in an error
\* of the archiver (the promise is rejected), or in an error of the output
\* file stream, which has no listener: the process ends on the uncaught
\* error, with or without a file left behind.
CreatePackage ==
    /\ mode = "build" /\ pc = "package"
    /\ NoWarnings /\ ~ArchiveExists(ZipFileName)
    /\ LET packageName == packageNameOf(manifestJson.name.s)
           zipFileName == ZipFileName
       IN \E outcome \in {"close", "archiveError", "outputError"},
             fileLeft \in BOOLEAN :
             CASE outcome = "close" ->
                    /\ fileLeft
                    /\ fs' = [fs EXCEPT
                                !.zips = (@ \cup {zipFileName})
                                         \ oldZips(packageName, zipFileName, @),
                                !.partial = @ \ oldZips(packageName, zipFileName,
                                                        fs.zips),
                                !.gitignore = manageGitignore(@, packageName)]
                    /\ created' = Append(created, zipFileName)
                    /\ trace' = Append(trace, "zip")
                    /\ exitStatus' = 0
                    /\ pc' = "exited"
                    /\ UNCHANGED stderr
               [] outcome = "archiveError" ->
                    /\ fileLeft
                    /\ fs' = [fs EXCEPT !.zips = @ \cup {zipFileName},
                                        !.partial = @ \cup {zipFileName}]
                    /\ trace' = trace \o <<"zip", "failed">>
                    /\ Catch("archiver error")
                    /\ UNCHANGED created
               [] outcome = "outputError" ->
                    /\ fs' = IF fileLeft
                             THEN [fs EXCEPT !.zips = @ \cup {zipFileName},
                                             !.partial = @ \cup {zipFileName}]
                             ELSE fs
                    /\ trace' = trace \o <<"zip", "failed">>
                    /\ stderr' = Append(stderr, "Uncaught Error")
                    /\ exitStatus' = 1
                    /\ pc' = "exited"
                    /\ UNCHANGED created
    /\ UNCHANGED <<mode, runVars, fs0, popup, result, runs, edits>>
    /\ UNCHANGED pubVars

\* between two runs the developer edits the version of a descriptor file
EditVersion ==
    /\ pc = "exited"
    /\ ~edits
    /\ edits' = TRUE
    /\ \E v \in EditVersions, both \in BOOLEAN :
          /\ fs.manifest.exists
          /\ fs.pkg.exists \/ ~both
          /\ fs' = [fs EXCEPT
                      !.manifest = Json([@.json EXCEPT !.version = Str(v)]),
                      !.pkg = IF both
                              THEN Json([@.json EXCEPT !.version = Str(v)])
                              ELSE @]
    /\ UNCHANGED <<mode, pc, runVars, exitStatus, stderr, trace, fs0, popup, result, created,
                   runs>>
    /\ UNCHANGED pubVars

(***************************************************************************)
(* publish.cjs                                                             *)
(***************************************************************************)
MaxRequests == 2   \* requests the local listener receives in one authorization

buildVars == <<packageJson, errors, warnings, highestVersion, created, edits>>

StartPublish ==
    /\ pc = "exited"
    /\ runs < MaxRuns
    /\ runs' = runs + 1
    /\ mode' = "publish"
    /\ pc' = "p_creds"
    /\ packageJson' = Package(Absent, Absent)
    /\ manifestJson' = EmptyManifest
    /\ errors' = <<>>
    /\ warnings' = <<>>
    /\ highestVersion' = <<>>
    /\ exitStatus' = -1
    /\ stderr' = <<>>
    /\ trace' = <<>>
    /\ fs0' = fs
    /\ \E client \in BOOLEAN, extension \in BOOLEAN, token \in {0, OldToken} :
          env' = [CLIENT |-> client, EXTENSION_ID |-> extension,
                  REFRESH_TOKEN |->
                      IF Len(fs.dotenv.tokens) > 0
                      THEN fs.dotenv.tokens[Len(fs.dotenv.tokens)]
                      ELSE token]
    /\ auth' = NoAuth
    /\ accessToken' = 0
    /\ authCount' = 0
    /\ fetchCount' = 0
    /\ uploadCount' = 0
    /\ printed' = <<>>
    /\ prev' = ThisRun
    /\ result' = NoResult
    /\ popup' = popup
    /\ edits' = FALSE
    /\ UNCHANGED <<fs, created>>

\* main: CLIENT_ID and CLIENT_SECRET must be set
CheckCredentials ==
    /\ mode = "publish" /\ pc = "p_creds"
    /\ trace' = Append(trace, "credentials")
    /\ IF ~env.CLIENT
       THEN Catch("CLIENT_ID and CLIENT_SECRET must be set")
       ELSE /\ pc' = "p_manifest"
            /\ UNCHANGED <<exitStatus, stderr>>
    /\ UNCHANGED <<fs, mode, runVars, fs0, popup, result, created, runs, edits, pubVars>>

\* main: load static/manifest.json and derive the archive name; toLowerCase
\* of a name and replace of a version that are not strings throw
PublishLoadManifest ==
    /\ mode = "publish" /\ pc = "p_manifest"
    /\ trace' = Append(trace, "manifest")
    /\ IF ~fs.staticManifest.exists
       THEN /\ Catch("manifest.json not found")
            /\ UNCHANGED manifestJson
       ELSE /\ manifestJson' = fs.staticManifest.json
            /\ IF fs.staticManifest.json.name.t # "str"
                  \/ fs.staticManifest.json.version.t # "str"
               THEN Catch("TypeError")
               ELSE /\ pc' = "p_zip"
                    /\ UNCHANGED <<exitStatus, stderr>>
    /\ UNCHANGED <<fs, mode, buildVars, fs0, popup, result, runs, pubVars>>

\* the archive name the publish run derives
PublishZipFileName ==
    zipFileNameOf(packageNameOf(manifestJson.name.s), manifestJson.version.s)

\* an archive taken to exist whatever the project root holds
ZipFileAlwaysExists(zipFileName) == TRUE

\* fs.existsSync(zipFilePath)
ZipFileExists(zipFileName) == zipFileName \in fs.zips

\* main: the archive must exist
CheckZipExists ==
    /\ mode = "publish" /\ pc = "p_zip"
    /\ trace' = Append(trace, "zip")
    /\ IF ~ZipFileExists(PublishZipFileName)
       THEN Catch("ZIP file not found")
       ELSE /\ pc' = "p_dispatch"
            /\ UNCHANGED <<exitStatus, stderr>>
    /\ UNCHANGED <<fs, mode, runVars, fs0, popup, result, created, runs, edits, pubVars>>

\* an upload attempted whether or not EXTENSION_ID is set
UploadAlways == TRUE

\* process.env.EXTENSION_ID is set
HasExtensionId == env.EXTENSION_ID

\* main: upload if EXTENSION_ID is set, else the archive is ready for a
\* manual upload and the run ends
Dispatch ==
    /\ mode = "publish" /\ pc = "p_dispatch"
    /\ IF HasExtensionId
       THEN /\ pc' = "t_check"
            /\ UNCHANGED exitStatus
       ELSE /\ pc' = "exited"
            /\ exitStatus' = 0
    /\ UNCHANGED <<fs, mode, runVars, stderr, trace, fs0, popup, result, created, runs, edits,
                   pubVars>>

\* an authorization that opens the URL at once, without the question
BeginAuthorizationOpensUrl(listenOk) ==
    [active |-> TRUE, urlPrinted |-> TRUE, rlOpen |-> listenOk,
     acknowledged |-> FALSE, urlOpened |-> TRUE, listening |-> listenOk,
     settled |-> IF listenOk THEN "pending" ELSE "rejected",
     token |-> 0, requests |-> 0, inFlight |-> 0, exchanges |-> 0]

\* getRefreshToken up to the return of its promise: the URL is printed, the
\* question is asked and the server is created and told to listen; binding
\* the port can fail, which rejects the promise and closes the readline
BeginAuthorization(listenOk) ==
    [active |-> TRUE, urlPrinted |-> TRUE, rlOpen |-> listenOk,
     acknowledged |-> FALSE, urlOpened |-> FALSE, listening |-> listenOk,
     settled |-> IF listenOk THEN "pending" ELSE "rejected",
     token |-> 0, requests |-> 0, inFlight |-> 0, exchanges |-> 0]

\* a save that creates the .env file when there is none
saveRefreshTokenCreatesFile(dotenv, refreshToken) ==
    [file |-> EnvFile(Append(dotenv.tokens, refreshToken)), print |-> <<>>]

\* saveRefreshToken: append to .env if it exists, else print the line
saveRefreshToken(dotenv, refreshToken) ==
    IF dotenv.exists
    THEN [file |-> EnvFile(Append(dotenv.tokens, refreshToken)), print |-> <<>>]
    ELSE [file |-> dotenv, print |-> <<refreshToken>>]

\* ensureAccessToken: without a refresh token the authorization starts
EnsureAccessToken ==
    /\ mode = "publish" /\ pc = "t_check"
    /\ IF env.REFRESH_TOKEN = 0
       THEN /\ \E listenOk \in BOOLEAN : auth' = BeginAuthorization(listenOk)
            /\ authCount' = authCount + 1
            /\ trace' = Append(trace, "authorize")
            /\ pc' = "auth1"
       ELSE /\ pc' = "fetch1"
            /\ UNCHANGED <<auth, authCount, trace>>
    /\ UNCHANGED <<fs, mode, runVars, exitStatus, stderr, fs0, popup, result, created, runs,
                   edits, env, accessToken, fetchCount, uploadCount, printed, prev>>

\* the callback of rl.question: the user pressed ENTER, the URL is opened
UserAcknowledges ==
    /\ mode = "publish" /\ pc # "exited"
    /\ auth.active /\ auth.rlOpen /\ ~auth.acknowledged
    /\ auth' = [auth EXCEPT !.acknowledged = TRUE, !.urlOpened = TRUE]
    /\ UNCHANGED <<fs, mode, pc, runVars, exitStatus, stderr, trace, fs0, popup, result,
                   created, runs, edits, env, accessToken, authCount,
                   fetchCount, uploadCount, printed, prev>>

\* the request handler of the local server up to its first await: without
\* a code the answer is 400 and nothing else happens; with a code the
\* exchange of the code is started
RedirectRequest ==
    /\ mode = "publish" /\ pc # "exited"
    /\ auth.active /\ auth.listening
    /\ auth.requests < MaxRequests
    /\ \E hasCode \in BOOLEAN :
          auth' = [auth EXCEPT
                     !.requests = @ + 1,
                     !.inFlight = IF hasCode THEN @ + 1 ELSE @,
                     !.exchanges = IF hasCode THEN @ + 1 ELSE @]
    /\ UNCHANGED <<fs, mode, pc, runVars, exitStatus, stderr, trace, fs0, popup, result,
                   created, runs, edits, env, accessToken, authCount,
                   fetchCount, uploadCount, printed, prev>>

\* the rest of the request handler: the exchange returned the tokens or
\* threw; the promise is settled (once), the readline and the server closed
ExchangeReturns ==
    /\ mode = "publish" /\ pc # "exited"
    /\ auth.active /\ auth.inFlight > 0
    /\ \E ok \in BOOLEAN :
          auth' = [auth EXCEPT
                     !.inFlight = @ - 1,
                     !.settled = IF @ = "pending"
                                 THEN (IF ok THEN "resolved" ELSE "rejected")
                                 ELSE @,
                     !.token = IF auth.settled = "pending" /\ ok
                               THEN OldToken + authCount ELSE @,
                     !.rlOpen = FALSE,
                     !.listening = FALSE]
    /\ UNCHANGED <<fs, mode, pc, runVars, exitStatus, stderr, trace, fs0, popup, result,
                   created, runs, edits, env, accessToken, authCount,
                   fetchCount, uploadCount, printed, prev>>

\* every authorization followed by the fetch inside the try block
FirstFetchAgain(step) == "fetch1"

\* the getAccessToken call that follows an authorization: the one inside
\* the try block after the first authorization, the one inside the catch
\* block after the second
FetchAfter(step) == IF step = "auth1" THEN "fetch1" ELSE "fetch2"

\* ensureAccessToken resumes after await getRefreshToken: the token is put
\* into process.env and saved; a rejection is thrown up to main
AuthorizationSettled ==
    /\ mode = "publish" /\ pc \in {"auth1", "auth2"}
    /\ auth.active /\ auth.settled \in {"resolved", "rejected"}
    /\ auth' = [NoAuth EXCEPT !.settled = auth.settled, !.token = auth.token]
    /\ IF auth.settled = "resolved"
       THEN LET r == saveRefreshToken(fs.dotenv, auth.token)
            IN /\ env' = [env EXCEPT !.REFRESH_TOKEN = auth.token]
               /\ fs' = [fs EXCEPT !.dotenv = r.file]
               /\ printed' = printed \o r.print
               /\ pc' = FetchAfter(pc)
               /\ UNCHANGED <<exitStatus, stderr>>
       ELSE /\ Catch("authorization failed")
            /\ UNCHANGED <<env, fs, printed>>
    /\ UNCHANGED <<mode, runVars, trace, fs0, popup, result, created, runs, edits,
                   accessToken, authCount, fetchCount, uploadCount, prev>>

\* an authorization after every invalid_grant, the second fetch included
ReauthorizeAlways(response, step) == response = "invalid_grant"

\* ensureAccessToken: the catch around the first getAccessToken starts an
\* authorization on "Invalid refresh token"; the second getAccessToken is
\* inside that catch block, so its failure is thrown
Reauthorize(response, step) == response = "invalid_grant" /\ step = "fetch1"

\* getAccessToken and what ensureAccessToken does with its result: the first
\* fetch that fails with invalid_grant starts an authorization, every other
\* failure is thrown up to main
FetchAccessToken ==
    /\ mode = "publish" /\ pc \in {"fetch1", "fetch2"}
    /\ fetchCount' = fetchCount + 1
    /\ \E response \in {"ok", "invalid_grant", "other"} :
          CASE response = "ok" ->
                 /\ accessToken' = env.REFRESH_TOKEN
                 /\ pc' = "upload"
                 /\ trace' = Append(trace, "fetch ok")
                 /\ UNCHANGED <<exitStatus, stderr, auth, authCount>>
            [] response # "ok" /\ Reauthorize(response, pc) ->
                 /\ \E listenOk \in BOOLEAN : auth' = BeginAuthorization(listenOk)
                 /\ authCount' = authCount + 1
                 /\ trace' = trace \o <<"fetch invalid_grant", "authorize">>
                 /\ pc' = "auth2"
                 /\ UNCHANGED <<exitStatus, stderr, accessToken>>
            [] OTHER ->
                 /\ Catch(IF response = "invalid_grant"
                          THEN "Invalid refresh token"
                          ELSE "Failed to get access token")
                 /\ trace' = Append(trace, IF response = "invalid_grant"
                                            THEN "fetch invalid_grant"
                                            ELSE "fetch other")
                 /\ UNCHANGED <<accessToken, auth, authCount>>
    /\ UNCHANGED <<fs, mode, runVars, fs0, popup, result, created, runs, edits, env,
                   uploadCount, printed, prev>>

\* JSON.stringify(result) of the response body, an object whose uploadState
\* is a string or is missing
ResponseBody(uploadState) ==
    IF uploadState = "missing" THEN "{}"
    ELSE "{\"uploadState\":\"" \o uploadState \o "\"}"

\* response.ok as the status line of the response
StatusLine(ok) == IF ok THEN "status 200" ELSE "status 403"

\* an upload taken as successful on its status alone
UploadSucceededOnStatus(ok, uploadState) == ok

\* response.ok && result.uploadState === "SUCCESS"
UploadSucceeded(ok, uploadState) == ok /\ uploadState = "SUCCESS"

\* uploadToChromeWebStore after the token: one PUT, successful only with a
\* success status and uploadState "SUCCESS"; the trace keeps the status and
\* the body of the response
Upload ==
    /\ mode = "publish" /\ pc = "upload"
    /\ uploadCount' = uploadCount + 1
    /\ \E ok \in BOOLEAN, uploadState \in {"SUCCESS", "FAILURE", "missing"} :
          /\ trace' = trace \o <<"upload", StatusLine(ok),
                                  ResponseBody(uploadState)>>
          /\ IF UploadSucceeded(ok, uploadState)
             THEN /\ exitStatus' = 0
                  /\ pc' = "exited"
                  /\ UNCHANGED stderr
             ELSE Catch("Upload failed: " \o ResponseBody(uploadState))
    /\ UNCHANGED <<fs, mode, runVars, fs0, popup, result, created, runs, edits, env, auth,
                   accessToken, authCount, fetchCount, printed, prev>>


Next ==
    \/ StartBuild
    \/ LoadConfigs
    \/ Validate
    \/ SynchronizeVersions
    \/ EnsureOutputDir
    \/ RunViteBuild
    \/ SkipPackaging
    \/ CreatePackage
    \/ EditVersion
    \/ StartPublish
    \/ CheckCredentials
    \/ PublishLoadManifest
    \/ CheckZipExists
    \/ Dispatch
    \/ EnsureAccessToken
    \/ UserAcknowledges
    \/ RedirectRequest
    \/ ExchangeReturns
    \/ AuthorizationSettled
    \/ FetchAccessToken
    \/ Upload

Spec == Init /\ [][Next]_vars

\* build runs only, with edits of the versions between them
NextBuild ==
    \/ StartBuild
    \/ LoadConfigs
    \/ Validate
    \/ SynchronizeVersions
    \/ EnsureOutputDir
    \/ RunViteBuild
    \/ SkipPackaging
    \/ CreatePackage
    \/ EditVersion

SpecBuild == Init /\ [][NextBuild]_vars

\* publish runs only, in a project directory where static/manifest.json and
\* the archive it names are present or not, with or without a .env file
GoodManifest ==
    Manifest(Num(3), Str(NameMX), Str(V1_0_0), GoodDescription, GoodIcons)

InitPublish ==
    /\ fs \in [pkg : {Json(Package(Str(NameX), Str(V1_0_0)))},
               manifest : {Json(GoodManifest)},
               staticManifest : {NoJson, Json(GoodManifest),
                                 Json([GoodManifest EXCEPT !.name = Absent])},
               outDir : {TRUE},
               zips : {{}, {zipFileNameOf(packageNameOf(NameMX), V1_0_0)}},
               partial : {{}},
               gitignore : {NoText},
               dotenv : {NoEnvFile, EnvFile(<<>>)}]
    /\ mode = "idle"
    /\ pc = "exited"
    /\ packageJson = Package(Absent, Absent)
    /\ manifestJson = EmptyManifest
    /\ errors = <<>>
    /\ warnings = <<>>
    /\ highestVersion = <<>>
    /\ exitStatus = -1
    /\ stderr = <<>>
    /\ trace = <<>>
    /\ fs0 = fs
    /\ created = <<>>
    /\ runs = 0
    /\ edits = FALSE
    /\ env = NoEnv
    /\ auth = NoAuth
    /\ accessToken = 0
    /\ authCount = 0
    /\ fetchCount = 0
    /\ uploadCount = 0
    /\ printed = <<>>
    /\ prev = NoRun
    /\ result = NoResult
    /\ popup = NoPopup

NextPublish ==
    \/ StartPublish
    \/ CheckCredentials
    \/ PublishLoadManifest
    \/ CheckZipExists
    \/ Dispatch
    \/ EnsureAccessToken
    \/ UserAcknowledges
    \/ RedirectRequest
    \/ ExchangeReturns
    \/ AuthorizationSettled
    \/ FetchAccessToken
    \/ Upload

SpecPublish == InitPublish /\ [][NextPublish]_vars

(***************************************************************************)
(* validateManifest applied on its own                                     *)
(***************************************************************************)
MaxVersionLength == 4   \* characters of an enumerated version string

VersionAlphabet == {"0", "1", "x", "."}

\* versions beyond the enumerated ones: the limits of a segment, the limits
\* of the segment count, numbers whose order differs from that of their text
ExtraVersions ==
    { <<"6", "5", "5", "3", "5">>, <<"6", "5", "5", "3", "6">>,
      <<"1", ".", "1", ".", "1", ".", "1">>,
      <<"1", ".", "1", ".", "1", ".", "1", ".", "1">>,
      <<"0", ".", "0", ".", "0", ".", "0">>,
      <<"9">>, <<"1", ".", "9">>, <<"1", ".", "0", ".", "0">> }

VersionStrings ==
    UNION { [1..n -> VersionAlphabet] : n \in 0..MaxVersionLength }
        \cup ExtraVersions

\* the versions validateManifest has no error for
ValidVersions ==
    { v \in VersionStrings : VersionErrors([version |-> Str(v)]) = <<>> }

Chars(n, c) == [i \in 1..n |-> c]

ValidateNames ==
    { Absent, Str(NameMX), Str(<<>>), Num(1),
      Str(Chars(MaxNameLength, "n")), Str(Chars(MaxNameLength + 1, "n")) }

ValidateManifestVersions == { Absent, Num(3), Num(2), Str(<<"3">>) }

ValidateDescriptions ==
    { Absent, GoodDescription, Num(1),
      Str(Chars(MaxDescriptionLength, "d")),
      Str(Chars(MaxDescriptionLength + 1, "d")) }

ValidateIcons ==
    { NoIcons, GoodIcons,
      IconsOf("array"), IconsOf("str"), IconsOf("num"), IconsOf("bool"),
      IconsOf("null"),
      IconsObject(<<>>),
      IconsObject(<< [size |-> "16", path |-> Str(IconPng)] >>),
      IconsObject(<< [size |-> "128", path |-> Str(<<"i", ".", "s", "v", "g">>)] >>),
      IconsObject(<< [size |-> "128", path |-> Num(1)] >>),
      IconsObject(<< [size |-> "128", path |-> Str(<<>>)],
                     [size |-> "16", path |-> Str(IconPng)] >>) }

\* every version with the other fields good; every combination of the other
\* fields with a few versions; every valid version with good required
\* fields and every description and icons
ValidateManifests ==
    { Manifest(Num(3), Str(NameMX), Str(v), GoodDescription, GoodIcons) :
          v \in VersionStrings }
    \cup { Manifest(mv, name, version, d, i) :
              mv \in ValidateManifestVersions, name \in ValidateNames,
              version \in {Absent, Str(V1_0_0), Str(V0), Str(<<"x">>)},
              d \in ValidateDescriptions, i \in ValidateIcons }
    \cup { Manifest(Num(3), name, Str(v), d, i) :
              name \in {Str(NameMX), Str(Chars(MaxNameLength, "n"))},
              v \in ValidVersions,
              d \in ValidateDescriptions, i \in ValidateIcons }

ValidatePackages ==
    { Package(Str(NameX), Str(V1_0_0)), Package(Absent, Str(V1_0_0)),
      Package(Num(1), Str(V1_0_0)), Package(Str(<<>>), Str(V1_0_0)) }

\* the variables the function applied on its own leaves as they start
Standalone ==
    /\ fs = [pkg |-> Json(packageJson), manifest |-> Json(manifestJson),
             staticManifest |-> NoJson, outDir |-> FALSE, zips |-> {},
             partial |-> {}, gitignore |-> NoText, dotenv |-> NoEnvFile]
    /\ pc = "input"
    /\ errors = <<>>
    /\ warnings = <<>>
    /\ highestVersion = <<>>
    /\ exitStatus = -1
    /\ stderr = <<>>
    /\ trace = <<>>
    /\ fs0 = fs
    /\ created = <<>>
    /\ runs = 0
    /\ edits = FALSE
    /\ env = NoEnv
    /\ auth = NoAuth
    /\ accessToken = 0
    /\ authCount = 0
    /\ fetchCount = 0
    /\ uploadCount = 0
    /\ printed = <<>>
    /\ prev = NoRun
    /\ result = NoResult
    /\ popup = NoPopup

InitValidate ==
    /\ manifestJson \in ValidateManifests
    /\ packageJson \in ValidatePackages
    /\ mode = "validateManifest"
    /\ Standalone

\* validateManifest(manifestJson, packageJson, manifestPath): it returns the
\* errors and warnings, having mutated the object and written the file when
\* it filled a field in, or it throws
ApplyValidateManifest ==
    /\ mode = "validateManifest" /\ pc = "input"
    /\ LET r == validateManifest(manifestJson, packageJson)
       IN IF r.threw
          THEN /\ pc' = "threw"
               /\ stderr' = Append(stderr, "TypeError")
               /\ UNCHANGED <<fs, manifestJson, errors, warnings, trace>>
          ELSE /\ pc' = "returned"
               /\ errors' = r.errors
               /\ warnings' = r.warnings
               /\ manifestJson' = r.manifest
               /\ fs' = IF r.saved
                        THEN [fs EXCEPT !.manifest = Json(r.manifest)]
                        ELSE fs
               /\ trace' = IF r.saved
                           THEN Append(trace, "write manifest.json")
                           ELSE trace
               /\ UNCHANGED stderr
    /\ UNCHANGED <<mode, packageJson, highestVersion, exitStatus, fs0, popup,
                   created, runs, edits, pubVars, result>>

NextValidate == ApplyValidateManifest

SpecValidate == InitValidate /\ [][NextValidate]_vars

(***************************************************************************)
(* compareVersions and synchronizeVersions applied on their own            *)
(***************************************************************************)
InitVersions ==
    /\ \E a \in ValidVersions : packageJson = Package(Str(NameX), Str(a))
    /\ \E b \in ValidVersions :
          manifestJson = Manifest(Num(3), Str(NameMX), Str(b),
                                  GoodDescription, GoodIcons)
    /\ mode = "versions"
    /\ Standalone

\* compareVersions on the two versions, both ways round and on the first
\* with itself
ApplyCompareVersions ==
    /\ mode = "versions" /\ ~result.compared
    /\ LET v1 == packageJson.version.s
           v2 == manifestJson.version.s
       IN result' = [result EXCEPT !.compared = TRUE,
                                   !.v1 = v1, !.v2 = v2,
                                   !.cmp = compareVersions(v1, v2),
                                   !.rev = compareVersions(v2, v1),
                                   !.self = compareVersions(v1, v1)]
    /\ UNCHANGED <<fs, mode, pc, runVars, exitStatus, stderr, trace, fs0, popup,
                   created, runs, edits, pubVars>>

\* synchronizeVersions(packageJson, manifestJson, ...), a first and a second
\* time: the objects are mutated and the files written as it decides
ApplySynchronizeVersions ==
    /\ mode = "versions" /\ result.applied < 2
    /\ LET r == synchronizeVersions(packageJson.version.s,
                                    manifestJson.version.s)
           pkg == [packageJson EXCEPT !.version = Str(r.pkgVersion)]
           man == [manifestJson EXCEPT !.version = Str(r.manVersion)]
       IN /\ packageJson' = pkg
          /\ manifestJson' = man
          /\ highestVersion' = r.highest
          /\ fs' = [fs EXCEPT
                      !.pkg = IF r.pkgWritten THEN Json(pkg) ELSE @,
                      !.manifest = IF r.manWritten THEN Json(man) ELSE @]
          /\ result' = [result EXCEPT
                          !.applied = @ + 1,
                          !.first = IF result.applied = 0 THEN r ELSE @,
                          !.second = IF result.applied = 1 THEN r ELSE @]
    /\ UNCHANGED <<mode, pc, errors, warnings, exitStatus, stderr, trace, fs0, popup,
                   created, runs, edits, pubVars>>

NextVersions ==
    \/ ApplyCompareVersions
    \/ ApplySynchronizeVersions

SpecVersions == InitVersions /\ [][NextVersions]_vars

(***************************************************************************)
(* The popup: App.tsx                                                      *)
(***************************************************************************)
duration == 2000    \* milliseconds of the timer of startEffect

MaxEvents == 4      \* mouse events on the logo in one behaviour

\* the step by which time advances
TimeStep == duration \div 2

Min(a, b) == IF a <= b THEN a ELSE b

\* everything but the popup
pipelineVars ==
    <<fs, mode, pc, packageJson, manifestJson, errors, warnings,
      highestVersion, exitStatus, stderr, trace, fs0, created, runs, edits,
      env, auth, accessToken, authCount, fetchCount, uploadCount, printed,
      prev, result>>

\* the component is mounted, the pointer outside the logo
InitPopup ==
    /\ packageJson = Package(Absent, Absent)
    /\ manifestJson = EmptyManifest
    /\ mode = "popup"
    /\ fs = [pkg |-> NoPackage, manifest |-> NoJson, staticManifest |-> NoJson,
             outDir |-> FALSE, zips |-> {}, partial |-> {},
             gitignore |-> NoText, dotenv |-> NoEnvFile]
    /\ pc = "mounted"
    /\ errors = <<>>
    /\ warnings = <<>>
    /\ highestVersion = <<>>
    /\ exitStatus = -1
    /\ stderr = <<>>
    /\ trace = <<>>
    /\ fs0 = fs
    /\ created = <<>>
    /\ runs = 0
    /\ edits = FALSE
    /\ env = NoEnv
    /\ auth = NoAuth
    /\ accessToken = 0
    /\ authCount = 0
    /\ fetchCount = 0
    /\ uploadCount = 0
    /\ printed = <<>>
    /\ prev = NoRun
    /\ result = NoResult
    /\ popup = [NoPopup EXCEPT !.mounted = TRUE]

\* onMouseEnter: startEffect sets a timer and keeps its identifier in
\* timeoutIdRef, whatever the reference held
startEffect ==
    /\ mode = "popup" /\ popup.mounted
    /\ popup.events < MaxEvents
    /\ popup' = [popup EXCEPT
                    !.timeoutIdRef = popup.nextId,
                    !.nextId = @ + 1,
                    !.pending = @ \cup {[id |-> popup.nextId, elapsed |-> 0]},
                    !.sinceEnter = 0,
                    !.events = @ + 1]
    /\ UNCHANGED pipelineVars

\* onMouseLeave: stopEffect clears the timer timeoutIdRef holds, if any
stopEffect ==
    /\ mode = "popup" /\ popup.mounted
    /\ popup.events < MaxEvents
    /\ popup' = [popup EXCEPT
                    !.pending = IF popup.timeoutIdRef # 0
                                THEN {t \in @ : t.id # popup.timeoutIdRef}
                                ELSE @,
                    !.timeoutIdRef = 0,
                    !.sinceEnter = -1,
                    !.events = @ + 1]
    /\ UNCHANGED pipelineVars

\* the cleanup of useEffect when the component unmounts: the timer
\* timeoutIdRef holds is cleared, the reference is left as it is
Unmount ==
    /\ mode = "popup" /\ popup.mounted
    /\ popup' = [popup EXCEPT
                    !.mounted = FALSE,
                    !.pending = IF popup.timeoutIdRef # 0
                                THEN {t \in @ : t.id # popup.timeoutIdRef}
                                ELSE @,
                    !.sinceEnter = -1]
    /\ pc' = "unmounted"
    /\ UNCHANGED <<fs, mode, runVars, exitStatus, stderr, trace, fs0, created,
                   runs, edits, pubVars, result>>

\* time passes, unless a timer is due
Tick ==
    /\ mode = "popup"
    /\ \A t \in popup.pending : t.elapsed < duration
    /\ popup.pending # {} \/ popup.sinceEnter \in 0..(duration - 1)
    /\ popup' = [popup EXCEPT
                    !.pending = {[id |-> t.id, elapsed |-> t.elapsed + TimeStep] :
                                    t \in @},
                    !.sinceEnter = IF @ = -1 THEN -1
                                   ELSE Min(@ + TimeStep, duration)]
    /\ UNCHANGED pipelineVars

\* the callback of setTimeout: the message to the active tab and, while the
\* component is mounted, destroyPage on the popup
TimerFires ==
    /\ mode = "popup"
    /\ \E t \in popup.pending :
          /\ t.elapsed >= duration
          /\ popup' = [popup EXCEPT
                          !.pending = @ \ {t},
                          !.fires = @ + 1,
                          !.firedSince = popup.sinceEnter,
                          !.firedMounted = popup.mounted]
    /\ UNCHANGED pipelineVars

NextPopup ==
    \/ startEffect
    \/ stopEffect
    \/ Unmount
    \/ Tick
    \/ TimerFires

SpecPopup == InitPopup /\ [][NextPopup]_vars

(***************************************************************************)
(* Properties                                                              *)
(***************************************************************************)
Contains(seq, x) == \E i \in 1..Len(seq) : seq[i] = x

IsPrefix(p, seq) == Len(p) <= Len(seq) /\ SubSeq(seq, 1, Len(p)) = p

Last(seq) == seq[Len(seq)]

\* the steps of a run without the marks of failure
Steps == SelectSeq(trace, LAMBDA x : x # "failed")

BuildOrder == <<"load", "validate", "sync", "mkdir", "bundle", "zip">>

\* the files of the project root that match `${slug}-v*.zip`: the slug,
\* "-v", any characters, ".zip"
MatchingArchives(slug, files) ==
    {f \in files :
        /\ Len(f) >= Len(slug) + 6
        /\ SubSeq(f, 1, Len(slug)) = slug
        /\ SubSeq(f, Len(slug) + 1, Len(slug) + 2) = <<"-", "v">>
        /\ SubSeq(f, Len(f) - 3, Len(f)) = <<".", "z", "i", "p">>}

\* C1: in every build run that reaches the bundler invocation, the version
\* of package.json and the version of the manifest are the same string, the
\* highest of the two versions loaded.
C1_VersionsReconciled ==
    (mode = "build" /\ pc = "bundle") =>
        /\ fs.pkg.json.version = fs.manifest.json.version
        /\ fs.manifest.json.version = Str(highestVersion)
        /\ compareVersions(highestVersion, fs0.pkg.json.version.s) >= 0
        /\ compareVersions(highestVersion, manifestJson.version.s) >= 0

\* C2: a publish run started after a build run that ended with status 0 and
\* an archive for the current version, with no file changed in between and
\* the credentials set, reads the manifest the build left, derives the
\* archive name the build derived and finds the archive.
C2_PublishFindsBuildArchive ==
    (mode = "publish" /\ prev.mode = "build" /\ prev.exitStatus = 0
        /\ prev.zip # <<>> /\ ~prev.edited /\ env.CLIENT /\ pc = "exited") =>
        /\ Contains(trace, "zip")
        /\ manifestJson = fs0.manifest.json
        /\ PublishZipFileName = prev.zip
        /\ ~Contains(stderr, "ZIP file not found")

\* C3: the steps of a build run occur in the order load, validate,
\* synchronize, output directory, bundler, package, each at most once; the
\* bundler is invoked only after a validation without errors and after the
\* synchronization; the archive is created only after the bundler returned
\* without failure; after a validation with errors no further step runs.
C3_BuildStepOrder ==
    mode = "build" =>
        /\ IsPrefix(Steps, BuildOrder)
        /\ Len(errors) > 0 => trace = <<"load", "validate">>
        /\ Contains(trace, "bundle") =>
              /\ Len(errors) = 0
              /\ highestVersion # <<>>
        /\ Contains(trace, "zip") =>
              ~IsPrefix(<<"load", "validate", "sync", "mkdir", "bundle", "failed">>,
                        trace)

C3_Witness ==
    mode = "build" /\ pc = "exited" /\ trace = BuildOrder /\ exitStatus = 0

C5_NoWriteOnErrors ==
    (mode = "build" /\ Len(errors) > 0) => fs = fs0

\* C6: if the archive of the current slug and version existed when the run
\* started, or the validation gave a warning, the build run creates no
\* archive, deletes none and leaves the ignore-list alone; and a build run
\* that follows, with no edit in between, a build run that ended with its
\* archive on disk creates no archive.
C6_PackagingSkipped ==
    mode = "build" =>
        /\ (Len(warnings) > 0
              \/ (highestVersion # <<>> /\ ZipFileName \in fs0.zips)) =>
              /\ fs.zips = fs0.zips
              /\ fs.partial = fs0.partial
              /\ fs.gitignore = fs0.gitignore
              /\ ~Contains(trace, "zip")
        /\ (prev.mode = "build" /\ prev.zip # <<>> /\ ~prev.edited) =>
              /\ ~Contains(trace, "zip")
              /\ fs.zips = fs0.zips

C6_Witness ==
    /\ mode = "build" /\ pc = "exited" /\ exitStatus = 0
    /\ prev.mode = "build" /\ prev.zip # <<>> /\ ~prev.edited
    /\ created = <<prev.zip>>
    /\ ZipFileName = prev.zip

\* C7: a build run whose validation returned no error and at least one
\* warning invokes the bundler and, unless the bundler fails, ends with
\* status 0; no archive exists that did not exist when the run started.
C7_WarningsDoNotBlockBuild ==
    (mode = "build" /\ Len(warnings) > 0 /\ Len(errors) = 0) =>
        /\ fs.zips \subseteq fs0.zips
        /\ pc = "exited" =>
              /\ IsPrefix(<<"load", "validate", "sync", "mkdir", "bundle">>, trace)
              /\ exitStatus = 0 \/ Last(trace) = "failed"
              /\ Last(trace) = "failed" => stderr = <<"Vite build failed">>

C7_Witness ==
    /\ mode = "build" /\ pc = "exited" /\ exitStatus = 0
    /\ Len(warnings) > 0 /\ Contains(trace, "bundle")

\* C8: after a build run that created a new archive and ended with status 0,
\* the only file of the project root matching `${slug}-v*.zip` is that
\* archive, written completely, and the ignore-list exists and contains the
\* pattern `${slug}-*.zip`.
C8_OnlyNewArchiveRemains ==
    (mode = "build" /\ pc = "exited" /\ exitStatus = 0 /\ Contains(trace, "zip")) =>
        LET slug == packageNameOf(manifestJson.name.s)
        IN /\ MatchingArchives(slug, fs.zips) = {ZipFileName}
           /\ ZipFileName \notin fs.partial
           /\ fs.gitignore.exists
           /\ Includes(fs.gitignore.content,
                       <<"\n">> \o slug \o <<"-", "*", ".", "z", "i", "p", "\n">>)

C8_Witness ==
    /\ mode = "build" /\ pc = "exited" /\ exitStatus = 0 /\ Contains(trace, "zip")
    /\ fs0.zips = StaleZips
    /\ fs0.gitignore = OtherIgnoreList

\* C9 as stated: over the build runs, no archive name is produced twice.
C9_ProducedAtMostOnce ==
    \A i, j \in 1..Len(created) : i # j => created[i] # created[j]

\* C9 as amended: an archive is created only when no file exists at its
\* path, so an existing archive is never overwritten, and the archive of a
\* slug and version is not produced again until an archive of another
\* version was produced in between (whose cleanup deleted it).
C9_ProducedOnceUntilSuperseded ==
    /\ \A i \in 1..(Len(created) - 1) : created[i] # created[i + 1]
    /\ (mode = "build" /\ Contains(trace, "zip")) => ZipFileName \notin fs0.zips

C9_Witness ==
    Len(created) = 3 /\ created[1] = created[3] /\ created[1] # created[2]

Count(seq, x) == Len(SelectSeq(seq, LAMBDA y : y = x))

\* the access-token fetches of a publish run, in order
Fetches ==
    SelectSeq(trace, LAMBDA x : x \in {"fetch ok", "fetch invalid_grant", "fetch other"})

\* what the run did after its first fetch returned
AfterFirstFetch ==
    LET k == CHOOSE i \in 1..Len(trace) :
                 /\ trace[i] \in {"fetch ok", "fetch invalid_grant", "fetch other"}
                 /\ \A j \in 1..(i - 1) :
                        trace[j] \notin {"fetch ok", "fetch invalid_grant", "fetch other"}
    IN SubSeq(trace, k + 1, Len(trace))

C11_ListenerServesOneRequest ==
    auth.active =>
        /\ auth.requests <= 1
        /\ (auth.requests >= 1 /\ auth.inFlight = 0
                => ~auth.listening /\ auth.settled # "pending")

\* C12 (as stated): the listener is started only after the user
\* acknowledgment: it is not listening, has accepted no request and has
\* exchanged no code while the acknowledgment has not been received.
C12_ListenerAfterAcknowledgment ==
    auth.active /\ ~auth.acknowledged =>
        ~auth.listening /\ auth.requests = 0 /\ auth.exchanges = 0

\* C12 (amended): the URL is printed and the listener started in one step,
\* before the acknowledgment and with the URL not yet opened; the URL is
\* opened only by the acknowledgment, while the listener is up; a request
\* is accepted only by a listener that is up, acknowledged or not.
C12_AuthorizationOrder ==
    [][ /\ (auth'.listening /\ ~auth.listening
                => auth'.urlPrinted /\ ~auth'.acknowledged /\ ~auth'.urlOpened)
        /\ (auth'.urlOpened /\ ~auth.urlOpened
                => auth.urlPrinted /\ auth.listening /\ ~auth.acknowledged
                   /\ auth'.acknowledged)
        /\ (auth'.requests > auth.requests => auth.listening)
      ]_vars

\* an authorization in which the URL was opened after the acknowledgment
\* and a code received by the listener was exchanged
C12_Witness ==
    auth.active /\ auth.acknowledged /\ auth.urlOpened /\ auth.exchanges > 0

CredentialsPresent == env.CLIENT

ManifestLoadable == fs.staticManifest.exists

ManifestNamesArchive ==
    /\ fs.staticManifest.json.name.t = "str"
    /\ fs.staticManifest.json.version.t = "str"

ManifestArchive ==
    packageNameOf(fs.staticManifest.json.name.s) \o <<"-", "v">>
        \o ReplaceDots(fs.staticManifest.json.version.s) \o DotZip

ArchivePresent == ManifestArchive \in fs.zips

NothingRequested == authCount = 0 /\ fetchCount = 0 /\ uploadCount = 0

PublishChecks == <<"credentials", "manifest", "zip">>

\* the run ended at the check that is the last of the trace, with status 1,
\* that one message and no authorization, token fetch or upload
EndedAt(check, message) ==
    /\ pc = "exited" /\ exitStatus = 1
    /\ Last(trace) = check
    /\ stderr = <<message>>
    /\ NothingRequested

C15_ManualUpload ==
    (/\ mode = "publish" /\ ~env.EXTENSION_ID
     /\ CredentialsPresent /\ ManifestLoadable /\ ManifestNamesArchive
     /\ ArchivePresent) =>
        /\ NothingRequested
        /\ ~auth.active
        /\ fs.dotenv = fs0.dotenv /\ printed = <<>>
        /\ pc \in {"p_creds", "p_manifest", "p_zip", "p_dispatch", "exited"}
        /\ stderr = <<>>
        /\ (pc = "exited" => exitStatus = 0 /\ trace = PublishChecks)

\* such a run has ended
C15_Witness ==
    /\ mode = "publish" /\ ~env.EXTENSION_ID
    /\ CredentialsPresent /\ ManifestLoadable /\ ManifestNamesArchive
    /\ ArchivePresent
    /\ pc = "exited" /\ exitStatus = 0 /\ trace = PublishChecks

\* the manifest validateManifest was applied to
Input == fs0.manifest.json

VersionErrorTags ==
    {"version_missing", "version_count", "version_int", "version_range",
     "version_leading", "version_allzero"}

\* C16: for a manifest whose version is present, validateManifest gives at
\* most one error about the version (exactly one when it is malformed): the
\* first failing rule wins.
C16_OneVersionError ==
    (mode = "validateManifest" /\ pc = "returned" /\ Has(Input.version)) =>
        Cardinality({i \in 1..Len(errors) : errors[i] \in VersionErrorTags}) <= 1

\* C17: for a manifest whose icons field is present and is no plain object
\* (array, string, number, boolean, null), validateManifest returns with
\* the warning about icons and the errors it has without that field.
C17_IconsNotAnObjectWarns ==
    (/\ mode = "validateManifest" /\ pc # "input"
     /\ Input.icons.t \in {"array", "str", "num", "bool", "null"}) =>
        /\ pc = "returned"
        /\ Contains(warnings, "icons_type")
        /\ errors = validateManifest([Input EXCEPT !.icons = NoIcons],
                                     packageJson).errors

\* a version of 1 to 4 dot-separated integers in 0..65535, without leading
\* zero on a nonzero one, not all zero
WellFormedVersion(v) ==
    LET parts == SplitDot(v)
    IN /\ Len(parts) \in 1..4
       /\ \A i \in 1..Len(parts) :
             /\ IsDigits(parts[i])
             /\ ParseInt(parts[i]) \in 0..65535
             /\ (ParseInt(parts[i]) # 0 => parts[i][1] # "0")
       /\ \E i \in 1..Len(parts) : ParseInt(parts[i]) # 0

\* C20: validateManifest returns no error for a manifest with
\* manifest_version 3, a string name of at most 75 characters and a
\* well-formed version, whatever its description and icons are.
C20_NoErrorForValidManifest ==
    (/\ mode = "validateManifest" /\ pc # "input"
     /\ Input.manifest_version = Num(3)
     /\ Input.name.t = "str" /\ Len(Input.name.s) <= 75
     /\ Input.version.t = "str" /\ WellFormedVersion(Input.version.s)) =>
        pc = "returned" /\ errors = <<>>

\* component i of a version, 0 when the version has fewer components
Component(v, i) ==
    IF i <= Len(SplitDot(v)) THEN ParseInt(SplitDot(v)[i]) ELSE 0

\* the order of two versions by their first differing component
ComponentOrder(a, b) ==
    LET differ == {i \in 1..4 : Component(a, i) # Component(b, i)}
    IN IF differ = {} THEN 0
       ELSE LET k == CHOOSE i \in differ : \A j \in differ : i <= j
            IN IF Component(a, k) > Component(b, k) THEN 1 ELSE -1

\* C18: for valid versions a and b, compareVersions(a, b) is
\* -compareVersions(b, a), compareVersions(a, a) is 0, and the value is the
\* order of the first differing component from the left, a missing
\* trailing component counting as 0.
C18_CompareVersionsAntisymmetric ==
    (mode = "versions" /\ result.compared) =>
        /\ result.cmp = -result.rev
        /\ result.self = 0
        /\ result.cmp = ComponentOrder(result.v1, result.v2)

\* two versions with different numbers of components compared equal
C18_Witness ==
    /\ mode = "versions" /\ result.compared
    /\ Len(SplitDot(result.v1)) # Len(SplitDot(result.v2))
    /\ result.cmp = 0

\* C19: applied a second time to the result of its first application,
\* synchronizeVersions leaves both versions as they are, returns the same
\* highest version and writes no file.
C19_SynchronizeIdempotent ==
    (mode = "versions" /\ result.applied = 2) =>
        /\ result.second.pkgVersion = result.first.pkgVersion
        /\ result.second.manVersion = result.first.manVersion
        /\ result.second.highest = result.first.highest
        /\ ~result.second.pkgWritten /\ ~result.second.manWritten
        /\ packageJson.version.s = result.first.pkgVersion
        /\ manifestJson.version.s = result.first.manVersion
        /\ highestVersion = result.first.highest

\* a second application after a first one that wrote a file
C19_Witness ==
    /\ mode = "versions" /\ result.applied = 2
    /\ (result.first.pkgWritten \/ result.first.manWritten)
    /\ fs # fs0

\* the name of package.json is a non-empty string
PackageNameUsable == packageJson.name.t = "str" /\ Len(packageJson.name.s) > 0

\* the fields validateManifest fills in for the manifest it was applied to
FillsManifestVersion == Input.manifest_version.t = "absent"

FillsName == Input.name.t = "absent" /\ PackageNameUsable

\* C21: an absent manifest_version is set to 3 without an error; an absent
\* name is filled from a non-empty string name of package.json without an
\* error; the manifest file is written back before validateManifest returns
\* if and only if one of the two was filled in.
C21_AutoFill ==
    (mode = "validateManifest" /\ pc = "returned") =>
        /\ (FillsManifestVersion
                => /\ manifestJson.manifest_version = Num(3)
                   /\ ~Contains(errors, "manifest_version"))
        /\ (FillsName
                => /\ manifestJson.name = packageJson.name
                   /\ \A i \in 1..Len(errors) :
                         errors[i] \notin {"name_missing", "name_type",
                                           "name_length"})
        /\ (Contains(trace, "write manifest.json")
                <=> FillsManifestVersion \/ FillsName)
        /\ fs.manifest = IF FillsManifestVersion \/ FillsName
                         THEN Json(manifestJson) ELSE fs0.manifest
        /\ (~FillsManifestVersion
                => manifestJson.manifest_version = Input.manifest_version)
        /\ (~FillsName => manifestJson.name = Input.name)

\* a manifest without name was filled from package.json and written back
C21_Witness ==
    /\ mode = "validateManifest" /\ pc = "returned"
    /\ FillsName /\ ~FillsManifestVersion
    /\ manifestJson.name = Str(NameX)
    /\ fs.manifest # fs0.manifest

DescriptionWarningTags == {"desc_missing", "desc_type", "desc_length"}

\* C22: for a string description validateManifest gives exactly one warning
\* about the description when its length is 133 or more and none when it is
\* 132 or less.
C22_DescriptionLimit ==
    (mode = "validateManifest" /\ pc = "returned"
     /\ Input.description.t = "str") =>
        Cardinality({i \in 1..Len(warnings) :
                        warnings[i] \in DescriptionWarningTags})
            = IF Len(Input.description.s) >= 133 THEN 1 ELSE 0

\* a description of 133 characters was warned about
C22_Witness ==
    /\ mode = "validateManifest" /\ pc = "returned"
    /\ Input.description.t = "str" /\ Len(Input.description.s) = 133
    /\ Contains(warnings, "desc_length")

\* C23: packaging succeeds only once the output file was closed, and an
\* error of the archive stream or of the output file stream makes
\* createZipArchive fail, so that the catch block of main logs it and the
\* run ends with status 1: the process does not end on an uncaught error.
C23_WriterErrorsCaught ==
    (mode = "build" /\ pc = "exited" /\ Contains(trace, "zip")) =>
        /\ (exitStatus = 0 => ZipFileName \in fs.zips \ fs.partial)
        /\ (Contains(trace, "failed")
                => /\ exitStatus = 1
                   /\ Len(stderr) > 0
                   /\ Last(stderr) # "Uncaught Error")

\* C26: a build run that skips packaging because a file exists at the
\* archive path finds a file that was written completely: no file left by
\* a packaging step that failed part-way is taken for the archive.
C26_ExistingArchiveIsComplete ==
    (/\ mode = "build" /\ pc = "exited" /\ exitStatus = 0
     /\ Len(warnings) = 0 /\ ~Contains(trace, "zip")) =>
        ZipFileName \in fs.zips \ fs.partial

\* C24: the refresh token an authorization returns becomes the refresh
\* token of the environment, which the next access-token fetch uses, and is
\* persisted once: appended to the .env file when the file exists,
\* otherwise printed with no file created; no other step of a publish run
\* changes the refresh token, the .env file or what was printed.
C24_TokenUsedAndPersistedOnce ==
    [][ (mode = "publish" /\ mode' = "publish" /\ runs' = runs) =>
          IF pc \in {"auth1", "auth2"} /\ pc' \in {"fetch1", "fetch2"}
          THEN /\ auth.settled = "resolved" /\ auth.token # 0
               /\ env'.REFRESH_TOKEN = auth.token
               /\ IF fs.dotenv.exists
                  THEN /\ fs'.dotenv.exists
                       /\ fs'.dotenv.tokens = Append(fs.dotenv.tokens, auth.token)
                       /\ printed' = printed
                  ELSE /\ fs'.dotenv = fs.dotenv
                       /\ printed' = Append(printed, auth.token)
          ELSE /\ fs'.dotenv = fs.dotenv
               /\ printed' = printed
               /\ env'.REFRESH_TOKEN = env.REFRESH_TOKEN
               /\ (pc \in {"fetch1", "fetch2"} /\ pc' = "upload"
                       => accessToken' = env.REFRESH_TOKEN)
      ]_vars

\* a run with two authorizations: both tokens appended to the .env file,
\* the access token obtained with the second
C24_Witness ==
    /\ mode = "publish" /\ pc = "upload" /\ authCount = 2
    /\ fs.dotenv.exists
    /\ Len(fs.dotenv.tokens) = Len(fs0.dotenv.tokens) + 2
    /\ accessToken = fs.dotenv.tokens[Len(fs.dotenv.tokens)]
    /\ accessToken # fs.dotenv.tokens[Len(fs.dotenv.tokens) - 1]

\* the comment line followed by the wildcard pattern of a slug
IgnoreBlock(slug) ==
    <<"# Generated by build.cjs", "\n">> \o slug
        \o <<"-", "*", ".", "z", "i", "p">>

Occurrences(s, p) ==
    Cardinality({i \in 0..(Len(s) - Len(p)) : SubSeq(s, i + 1, i + Len(p)) = p})

\* the slugs of the manifests the pipeline is run on
Slugs == { <<"m", "-", "x">>, <<"x">> }

\* C25: over the build runs the ignore-list holds the generated block of a
\* slug at most once; a run that created an archive leaves the block in the
\* file, appended when the file existed without it, as the whole content
\* when the file did not exist, and the file as it was when the block was
\* there.
C25_IgnoreBlockOnce ==
    /\ \A slug \in Slugs :
          Occurrences(fs.gitignore.content, IgnoreBlock(slug)) <= 1
    /\ (/\ mode = "build" /\ pc = "exited" /\ exitStatus = 0
        /\ Contains(trace, "zip")) =>
           LET slug == packageNameOf(manifestJson.name.s)
               block == <<"\n", "\n">> \o IgnoreBlock(slug) \o <<"\n">>
           IN /\ slug \in Slugs
              /\ fs.gitignore.exists
              /\ fs.gitignore.content =
                    IF ~fs0.gitignore.exists THEN block
                    ELSE IF Occurrences(fs0.gitignore.content,
                                        IgnoreBlock(slug)) = 0
                         THEN fs0.gitignore.content \o block
                         ELSE fs0.gitignore.content

\* a second archive was created with the block already in the ignore-list
C25_Witness ==
    /\ mode = "build" /\ pc = "exited" /\ exitStatus = 0
    /\ Contains(trace, "zip") /\ Len(created) >= 2
    /\ Occurrences(fs0.gitignore.content,
                   IgnoreBlock(packageNameOf(manifestJson.name.s))) = 1
    /\ fs.gitignore = fs0.gitignore

\* C27: during one authorization, however the redirect requests interleave,
\* the authorization code is exchanged for tokens at most once.
C27_ExchangedAtMostOnce ==
    (mode = "publish" /\ auth.active) => auth.exchanges <= 1

\* the position of a step in the publish run
Rank(step) ==
    CASE step = "p_creds" -> 0 [] step = "p_manifest" -> 1
      [] step = "p_zip" -> 2 [] step = "p_dispatch" -> 3
      [] step = "t_check" -> 4 [] step = "auth1" -> 5
      [] step = "fetch1" -> 6 [] step = "auth2" -> 7
      [] step = "fetch2" -> 8 [] step = "upload" -> 9
      [] step = "exited" -> 10

\* C28: a publish run starts at most two authorizations (the first only
\* without a refresh token, the second only after an invalid_grant), issues
\* at most two access-token fetches and at most one upload, and never goes
\* back to an earlier step: once each authorization and each fetch has
\* finished, ensureAccessToken has returned or thrown.
C28_BoundedTokenHandling ==
    /\ [](mode = "publish" =>
            /\ authCount <= 2 /\ fetchCount <= 2 /\ uploadCount <= 1
            /\ authCount <= fetchCount + 1
            /\ (authCount = 2 => Contains(trace, "fetch invalid_grant"))
            /\ (pc \in {"upload", "exited"} =>
                    ~auth.active \/ auth.settled # "pending"))
    /\ [][ (mode = "publish" /\ mode' = "publish" /\ runs' = runs) =>
              /\ Rank(pc') >= Rank(pc)
              /\ (authCount' > authCount => Rank(pc') > Rank(pc))
              /\ (fetchCount' > fetchCount => Rank(pc') > Rank(pc))
          ]_vars

\* a run with two authorizations, two fetches and one upload has ended
C28_Witness ==
    /\ mode = "publish" /\ pc = "exited"
    /\ authCount = 2 /\ fetchCount = 2 /\ uploadCount = 1

\* C29: in the popup, whatever the sequence of mouse-enter and mouse-leave
\* events, the destroy action fires only when 2000 ms have passed since the
\* most recent mouse-enter with no mouse-leave in between, and after a
\* mouse-leave or after the unmount no timer is pending.
C29_DestroyOnlyAfterHover ==
    mode = "popup" =>
        /\ (popup.fires > 0 => popup.firedSince >= 2000)
        /\ (popup.sinceEnter = -1 \/ ~popup.mounted => popup.pending = {})

====
